---------------------------- MODULE Spec2Model ----------------------------
(***************************************************************************)
(* The Podio push relay (Helgeboy/PushyServices).  The repository holds    *)
(* three revisions of server.js; `rev` says which one is running:          *)
(*   "server.js"  src/server.js:1-219       webhook + Faye registry `subs` *)
(*   "part_000"   src/unnamed/part_000:1-227  CometD registry `active`     *)
(*   "push"       src/unnamed/part_000:229-346 webhook only (the same code *)
(*                is at src/server.js:221-344, src/unnamed/part_000:348-471)*)
(* Node runs each handler to its first `await` on a pending promise        *)
(* without interleaving, so every action below is one such run.            *)
(***************************************************************************)
EXTENDS Integers, Sequences, FiniteSets, TLC

\* ------------------------------------------------------------- bounds
MaxClients == 2     \* Faye clients created in one run
MaxEvents == 2      \* envelopes that reach the relay in one run

Revisions == {"server.js", "part_000", "push"}
Channels == {"/task/1", "/task/2"}
Undefined == "<undefined>"          \* an unset variable, a missing field

VARIABLES
    rev,                 \* the revision that runs
    AVA_TOPIC_URL,       \* process.env, read once at start
    DEBUG_WEBHOOK_URL,
    PODIO_PUSH_SECRET,
    subs,                \* server.js:77   Map channel -> client (0: no entry)
    active,              \* part_000:38    Map channel -> client (0: no entry)
    clients,             \* every Faye.Client built so far, with its subscription
                         \* and, in part_000, the subscribe call that awaits it
    last,                \* the control request just answered, with its response
    hook,                \* the last /podio/push exchange
    events,              \* the envelopes that reached the relay, in arrival order
    sent,                \* per Forward Target, the envelopes in dispatch order
    wire                 \* the last message a client's outgoing extension was given,
                         \* with what the extension passed on

vars == <<rev, AVA_TOPIC_URL, DEBUG_WEBHOOK_URL, PODIO_PUSH_SECRET, subs, active,
          clients, last, hook, events, sent, wire>>

env == <<rev, AVA_TOPIC_URL, DEBUG_WEBHOOK_URL, PODIO_PUSH_SECRET>>

\* ------------------------------------------------------------- registry
Registry == IF rev = "part_000" THEN active ELSE subs

\* active.has(channel), subs.has(channel)
HasEntry(reg, ch) == reg[ch] # 0

\* The subscribe calls of part_000 suspended at the await of part_000:112.
Pending == {c \in DOMAIN clients : clients[c].promise = "pending"}

\* new Faye.Client(...) + addExtension + client.subscribe(channel, cb); in
\* part_000 (waits) also the closure of the confirmation wait: the `done`
\* flag, the armed 15 s timer and the promise the caller awaits.  `peers` are
\* the subscribe calls for the same channel that were suspended when this one
\* started.
NewClient(ch, waits) ==
    [channel |-> ch, sub |-> "pending", connected |-> TRUE,
     done |-> FALSE, timer |-> waits,
     promise |-> IF waits THEN "pending" ELSE "none",
     peers |-> {c \in Pending : clients[c].channel = ch},
     cancelCalled |-> FALSE, disconnectCalled |-> FALSE]

NoRequest == [op |-> "none", channel |-> Undefined, code |-> 0, status |-> ""]

Reply(op, ch, code, status) ==
    [op |-> op, channel |-> ch, code |-> code, status |-> status]

\* What the caller of the subscribe call that built client c gets, in
\* part_000: subscribeToChannel returns at part_000:127 and the route answers
\* at 180, or the rejection reaches the catch at 185-188.
Answer(c) ==
    CASE clients[c].promise = "resolved" -> Reply("subscribe", clients[c].channel, 200, "subscribed")
      [] clients[c].promise = "rejected" -> Reply("subscribe", clients[c].channel, 500, "error")
      [] OTHER -> NoRequest

\* The request bodies of POST /subscribe: push.channel, push.signature and
\* push.timestamp, each present or missing.
SubscribeBodies ==
    [channel : Channels \cup {Undefined}, signature : {"abc", Undefined},
     timestamp : {"1700000000", Undefined}]

\* A validation that looks at the channel alone.
MissingChannel(push) == push.channel = Undefined

\* server.js:147, part_000:173
MissingFields(push) ==
    \/ push.channel = Undefined
    \/ push.signature = Undefined
    \/ push.timestamp = Undefined

\* A JavaScript value of a request body or a message field, with its type.
Num(text) == [type |-> "number", text |-> text]
Str(text) == [type |-> "string", text |-> text]
Absent == [type |-> "undefined", text |-> ""]

\* message.ext of a Bayeux message: missing, or an object with its fields.
NoExt == [present |-> FALSE, private_pub_signature |-> Absent,
          private_pub_timestamp |-> Absent, other |-> Absent]

NoWire == [channel |-> Undefined, signature |-> Absent, timestamp |-> Absent,
           message |-> [channel |-> Undefined, subscription |-> Undefined, ext |-> NoExt],
           out |-> [channel |-> Undefined, subscription |-> Undefined, ext |-> NoExt]]

NoHook == [type |-> Undefined, challenge |-> Undefined, sig |-> <<>>,
           code |-> 0, echo |-> Undefined, verify |-> "none", event |-> 0]

Start ==
    /\ AVA_TOPIC_URL \in {Undefined, "https://ava"}
    /\ DEBUG_WEBHOOK_URL \in {Undefined, "https://debug"}
    /\ subs = [ch \in Channels |-> 0]
    /\ active = [ch \in Channels |-> 0]
    /\ clients = <<>>
    /\ last = NoRequest
    /\ hook = NoHook
    /\ events = <<>>
    /\ sent = [ava |-> <<>>, debug |-> <<>>]
    /\ wire = NoWire

\* The control API and the bus: the two revisions that keep a registry.  Their
\* handlers read neither the forward URLs nor the push secret.
Init ==
    /\ rev \in {"server.js", "part_000"}
    /\ PODIO_PUSH_SECRET = "s3cret"
    /\ Start
    /\ AVA_TOPIC_URL = "https://ava"
    /\ DEBUG_WEBHOOK_URL = "https://debug"

\* ------------------------------------------------------------- POST /subscribe
\* server.js:144-190.  No await between subs.has and subs.set.
Subscribe(push) ==
    /\ rev = "server.js"
    /\ last = NoRequest
    /\ IF MissingFields(push)
       THEN /\ last' = Reply("subscribe", push.channel, 400, "error")
            /\ UNCHANGED <<subs, clients>>
       ELSE IF HasEntry(subs, push.channel)
       THEN /\ last' = Reply("subscribe", push.channel, 200, "exists")
            /\ UNCHANGED <<subs, clients>>
       ELSE /\ Len(clients) < MaxClients
            /\ clients' = Append(clients, NewClient(push.channel, FALSE))
            /\ subs' = [subs EXCEPT ![push.channel] = Len(clients) + 1]
            /\ last' = Reply("subscribe", push.channel, 200, "subscribed")
    /\ UNCHANGED <<env, wire, active, hook, events, sent>>

\* part_000:168-189 with subscribeToChannel, part_000:66-112: the run up to the
\* `await` of the confirmation promise.  active.set comes after that await.
SubscribeToChannel(push) ==
    /\ rev = "part_000"
    /\ last = NoRequest
    /\ IF MissingFields(push)
       THEN /\ last' = Reply("subscribe", push.channel, 400, "error")
            /\ UNCHANGED clients
       ELSE IF HasEntry(active, push.channel)
       THEN /\ last' = Reply("subscribe", push.channel, 200, "already_subscribed")
            /\ UNCHANGED clients
       ELSE /\ Len(clients) < MaxClients
            /\ clients' = Append(clients, NewClient(push.channel, TRUE))
            /\ UNCHANGED last
    /\ UNCHANGED <<env, wire, subs, active, hook, events, sent>>

\* A confirmation callback that sets the registry entry itself, whatever has
\* become of the wait.
BusConfirmInserts(c) ==
    /\ rev \in {"server.js", "part_000"}
    /\ clients[c].sub = "pending"
    /\ clients[c].connected
    /\ clients' = [clients EXCEPT
           ![c].sub = "confirmed",
           ![c].done = (rev = "part_000"),
           ![c].promise = IF @ = "pending" THEN "resolved" ELSE @]
    /\ IF rev = "part_000"
       THEN active' = [active EXCEPT ![clients[c].channel] = c]
       ELSE UNCHANGED active
    /\ UNCHANGED <<env, wire, subs, last, hook, events, sent>>

\* The bus acknowledges /meta/subscribe.  server.js:174-175 only logs.
\* part_000:114-118 runs subscription.callback: `if (done) return; done = true;
\* resolve()`, and a resolved promise resumes subscribeToChannel at
\* part_000:125-127 (active.set, status subscribed).
BusConfirm(c) ==
    /\ rev \in {"server.js", "part_000"}
    /\ clients[c].sub = "pending"
    /\ clients[c].connected
    /\ clients' = [clients EXCEPT
           ![c].sub = "confirmed",
           ![c].done = (rev = "part_000"),
           ![c].promise = IF ~clients[c].done /\ @ = "pending" THEN "resolved" ELSE @]
    /\ IF ~clients[c].done /\ clients[c].promise = "pending"
       THEN active' = [active EXCEPT ![clients[c].channel] = c]
       ELSE UNCHANGED active
    /\ UNCHANGED <<env, wire, subs, last, hook, events, sent>>

\* The bus refuses /meta/subscribe: server.js:176 and part_000:107-109 log it.
BusReject(c) ==
    /\ rev \in {"server.js", "part_000"}
    /\ clients[c].sub = "pending"
    /\ clients[c].connected
    /\ clients' = [clients EXCEPT ![c].sub = "failed"]
    /\ UNCHANGED <<env, wire, subs, active, last, hook, events, sent>>

\* A timer whose callback does not reject.
TimerFiresSilently(c) ==
    /\ rev = "part_000"
    /\ clients[c].timer
    /\ clients' = [clients EXCEPT ![c].timer = FALSE]
    /\ UNCHANGED <<env, wire, subs, active, last, hook, events, sent>>

\* part_000:119-122, the 15 s timer: `if (done) return; reject(...)`.  The
\* rejection leaves subscribeToChannel at the await and reaches the catch of
\* the route, part_000:185-188.
TimerFires(c) ==
    /\ rev = "part_000"
    /\ clients[c].timer
    /\ clients' = [clients EXCEPT
           ![c].timer = FALSE,
           ![c].promise = IF ~clients[c].done /\ @ = "pending" THEN "rejected" ELSE @]
    /\ UNCHANGED <<env, wire, subs, active, last, hook, events, sent>>

\* ------------------------------------------------------------- POST /unsubscribe
\* A teardown without the `if (!rec)` line of part_000:135.
unsubscribeStatusUnchecked(rec) == "unsubscribed"

\* part_000:134-135 and 149: the status for the record active.get returned
unsubscribeStatus(rec) == IF rec = 0 THEN "not_found" ELSE "unsubscribed"

\* A teardown that keeps a handle of its own: it takes the last client built
\* for the channel, whether or not the registry still holds it.
UnsubscribeByHandle(ch, cancelThrows, disconnectThrows) ==
    /\ rev = "part_000"
    /\ last = NoRequest
    /\ ch # Undefined
    /\ LET built == {c \in DOMAIN clients : clients[c].channel = ch}
       IN /\ built # {}
          /\ LET rec == CHOOSE c \in built : \A d \in built : d <= c
             IN /\ clients' = [clients EXCEPT
                       ![rec].cancelCalled = TRUE,
                       ![rec].sub = IF cancelThrows THEN @ ELSE "cancelled",
                       ![rec].disconnectCalled = TRUE,
                       ![rec].connected = IF disconnectThrows THEN @ ELSE FALSE]
                /\ active' = [active EXCEPT ![ch] = 0]
                /\ last' = Reply("unsubscribe", ch, 200, "unsubscribed")
    /\ UNCHANGED <<env, wire, subs, hook, events, sent>>

\* part_000:196-207 with unsubscribeFromChannel, part_000:133-150.
\* subscription.cancel() returns no promise, so the await at 138 resumes in the
\* same turn.  cancelThrows, disconnectThrows: the transport fails the call.
UnsubscribeFromChannel(ch, cancelThrows, disconnectThrows) ==
    /\ rev = "part_000"
    /\ last = NoRequest
    /\ IF ch = Undefined
       THEN /\ last' = Reply("unsubscribe", ch, 400, "error")
            /\ UNCHANGED <<active, clients>>
       ELSE LET rec == active[ch]
            IN /\ last' = Reply("unsubscribe", ch, 200, unsubscribeStatus(rec))
               /\ IF rec = 0
                  THEN UNCHANGED <<active, clients>>
                  ELSE /\ clients' = [clients EXCEPT
                             ![rec].cancelCalled = TRUE,
                             ![rec].sub = IF cancelThrows THEN @ ELSE "cancelled",
                             ![rec].disconnectCalled = TRUE,
                             ![rec].connected = IF disconnectThrows THEN @ ELSE FALSE]
                       /\ active' = [active EXCEPT ![ch] = 0]
    /\ UNCHANGED <<env, wire, subs, hook, events, sent>>

\* server.js:194-211.  A throwing cancel() reaches the catch at 207-210:
\* status 500, and subs.delete at 203 is never run.  client.disconnect() is
\* not called in this revision.
Unsubscribe(ch, cancelThrows) ==
    /\ rev = "server.js"
    /\ last = NoRequest
    /\ IF ch = Undefined
       THEN /\ last' = Reply("unsubscribe", ch, 400, "error")
            /\ UNCHANGED <<subs, clients>>
       ELSE LET entry == subs[ch]
            IN IF entry = 0
               THEN /\ last' = Reply("unsubscribe", ch, 200, "not_found")
                    /\ UNCHANGED <<subs, clients>>
               ELSE IF cancelThrows
               THEN /\ clients' = [clients EXCEPT ![entry].cancelCalled = TRUE]
                    /\ last' = Reply("unsubscribe", ch, 500, "error")
                    /\ UNCHANGED subs
               ELSE /\ clients' = [clients EXCEPT ![entry].cancelCalled = TRUE,
                                                  ![entry].sub = "cancelled"]
                    /\ subs' = [subs EXCEPT ![ch] = 0]
                    /\ last' = Reply("unsubscribe", ch, 200, "unsubscribed")
    /\ UNCHANGED <<env, wire, active, hook, events, sent>>

\* The response has been sent (res.json); the next request is taken.
Close ==
    /\ last # NoRequest
    /\ last' = NoRequest
    /\ UNCHANGED <<env, wire, subs, active, clients, hook, events, sent>>

\* ------------------------------------------------------------- GET /health
\* part_000:212-219 answers { ok, env, cometd, subscriptions: Array.from(
\* active.keys()) }; server.js:110 answers the text "OK" and names no channel.
listActive ==
    IF rev = "part_000" THEN {ch \in Channels : HasEntry(active, ch)} ELSE {}

Health ==
    /\ rev \in {"server.js", "part_000"}
    /\ last = NoRequest
    /\ last' = [op |-> "health", channel |-> Undefined, code |-> 200,
                status |-> IF rev = "part_000" THEN "ok" ELSE "OK",
                subscriptions |-> listActive]
    /\ UNCHANGED <<env, wire, subs, active, clients, hook, events, sent>>

\* ------------------------------------------------------------- Event Relay
Targets == {"ava", "debug"}

\* A forwarder that is waited for: it returns when the post has ended.
forwardStartAwaited(url, guarded) ==
    IF url # Undefined THEN "ok"
    ELSE IF guarded THEN "skipped" ELSE "failed"

\* forwardToAVA / forwardToDebug up to the await of axios.post: server.js:38-41,
\* 50-53, part_000:43-46, 53-56.  `guarded`: the function returns at once when
\* its URL is unset; forwardToAVA of the push revision (part_000:278-280) has
\* no such line, and axios.post(undefined) fails into its catch.
forwardStart(url, guarded) ==
    IF url # Undefined THEN "inflight"
    ELSE IF guarded THEN "skipped" ELSE "failed"

\* A forwarder without its try/catch: the failure leaves the function.
forwardSettleNoCatch(outcome) == IF outcome = "error" THEN "thrown" ELSE "ok"

\* The try/catch around the await: server.js:44-47, part_000:47-50.  A failed
\* post (connection refused, a non-2xx status) is logged by console.error.
forwardSettle(outcome) == IF outcome = "error" THEN "failed" ELSE "ok"

Dispatch(s, T, e, st) == IF st = "inflight" THEN [s EXCEPT ![T] = Append(@, e)] ELSE s

\* The bus delivers a message on client c's channel: the subscription callback,
\* server.js:167-172, part_000:91-104.  `await forwardToAVA(...)` comes first;
\* forwardToDebug is called only when that promise has settled.
BusMessage(c) ==
    /\ rev \in {"server.js", "part_000"}
    /\ clients[c].sub = "confirmed"
    /\ clients[c].connected
    /\ Len(events) < MaxEvents
    /\ LET e == Len(events) + 1
           a == forwardStart(AVA_TOPIC_URL, TRUE)
           d == IF a = "inflight" THEN "idle" ELSE forwardStart(DEBUG_WEBHOOK_URL, TRUE)
       IN /\ events' = Append(events, [path |-> "bus", client |-> c, body |-> <<>>,
                                       sig |-> <<>>, ava |-> a, debug |-> d])
          /\ sent' = Dispatch(Dispatch(sent, "ava", e, a), "debug", e, d)
    /\ UNCHANGED <<env, wire, subs, active, clients, last, hook>>

\* axios.post to target T for envelope e ends: 2xx, or an error.  On the bus
\* path the end of the AVA post resumes the callback, which calls forwardToDebug.
PostComplete(e, T, outcome) ==
    /\ events[e][T] = "inflight"
    /\ LET st == forwardSettle(outcome)
           resumes == T = "ava" /\ events[e].path = "bus" /\ st # "thrown"
           d == IF resumes THEN forwardStart(DEBUG_WEBHOOK_URL, TRUE) ELSE events[e].debug
       IN /\ events' = [events EXCEPT ![e] = [[@ EXCEPT !.debug = d] EXCEPT ![T] = st]]
          /\ sent' = IF resumes THEN Dispatch(sent, "debug", e, d) ELSE sent
    /\ UNCHANGED <<env, wire, subs, active, clients, last, hook>>

\* ------------------------------------------------------------- POST /podio/push
HandshakeType == "subscription_verification"

\* The bodies Podio (or anyone) posts: a type, and a challenge that is
\* missing, empty or a token.
PushBodies ==
    [type : {HandshakeType}, challenge : {Undefined, "", "xyz"}]
        \cup [type : {"item.update"}, challenge : {Undefined}]

\* JavaScript truthiness of an optional string
Truthy(v) == v \notin {Undefined, ""}

\* crypto.createHmac("sha1", key).update(JSON.stringify(body)).digest("hex"):
\* a digest names its key and its body (no collisions).
Hmac(key, body) == <<key, body.type, body.challenge>>

\* The x-podio-signature headers tried for a body: none, the digest under the
\* real secret, the digest under the empty key, a digest of another body.
Signatures(body) ==
    {<<>>, Hmac("s3cret", body), Hmac("", body),
     Hmac("s3cret", [body EXCEPT !.type = "item.delete"])}

\* A verifier that compares nothing.
validateAnything(body, signature) == "true"

\* server.js:65-71 (key PODIO_PUSH_SECRET || ""), part_000:266-273 (key
\* PODIO_PUSH_SECRET: createHmac throws a TypeError when it is undefined).
validatePodioSignature(body, signature) ==
    IF PODIO_PUSH_SECRET = Undefined /\ rev # "server.js" THEN "threw"
    ELSE LET key == IF PODIO_PUSH_SECRET = Undefined THEN "" ELSE PODIO_PUSH_SECRET
         IN IF Hmac(key, body) = signature THEN "true" ELSE "false"

\* A handshake test against the wrong type name.
isHandshakeWrongType(body) == body.type = "verification"

\* server.js:117 (type and a truthy challenge), part_000:310 (type alone)
isHandshake(body) ==
    /\ body.type = HandshakeType
    /\ rev = "server.js" => Truthy(body.challenge)

\* server.js:113-139, part_000:306-339.  The two forward calls are not awaited.
\* A throwing verifier rejects the handler's promise: no response is sent.
PodioPush(body, signature) ==
    /\ rev \in {"server.js", "push"}
    /\ LET h == [type |-> body.type, challenge |-> body.challenge, sig |-> signature,
                 code |-> 0, echo |-> Undefined, verify |-> "none", event |-> 0]
           v == validatePodioSignature(body, signature)
       IN IF isHandshake(body)
          THEN /\ hook' = [h EXCEPT !.code = 200, !.echo = body.challenge]
               /\ UNCHANGED <<events, sent>>
          ELSE IF signature = <<>>
          THEN /\ hook' = [h EXCEPT !.code = 401]
               /\ UNCHANGED <<events, sent>>
          ELSE IF v # "true"
          THEN /\ hook' = [h EXCEPT !.code = IF v = "false" THEN 401 ELSE 0, !.verify = v]
               /\ UNCHANGED <<events, sent>>
          ELSE /\ Len(events) < MaxEvents
               /\ LET e == Len(events) + 1
                      a == forwardStart(AVA_TOPIC_URL, rev = "server.js")
                      d == forwardStart(DEBUG_WEBHOOK_URL, TRUE)
                  IN /\ events' = Append(events, [path |-> "webhook", client |-> 0,
                                                  body |-> Hmac("", body), sig |-> signature,
                                                  ava |-> a, debug |-> d])
                     /\ sent' = Dispatch(Dispatch(sent, "ava", e, a), "debug", e, d)
                     /\ hook' = [h EXCEPT !.code = 200, !.verify = v, !.event = e]
    /\ UNCHANGED <<env, wire, subs, active, clients, last>>

\* ------------------------------------------------------------- outgoing extension
\* String(v)
String(v) == Str(v.text)

\* The messages a Faye client sends: the /meta channels and a publish.
MetaChannels == {"/meta/handshake", "/meta/connect", "/meta/subscribe",
                 "/meta/unsubscribe"}

Exts == {NoExt,
         [NoExt EXCEPT !.present = TRUE],
         [NoExt EXCEPT !.present = TRUE, !.other = Str("x")]}

Messages ==
    [channel : MetaChannels \cup {"/task/1"},
     subscription : Channels \cup {Undefined},
     ext : Exts]

\* The push blobs a client is built for; Podio sends timestamp as a number.
ExtensionPushes ==
    [channel : Channels, signature : {Str("abc")},
     timestamp : {Num("1700000000"), Str("1700000000")}]

\* The `outgoing` function of client.addExtension with what it hands to
\* callback(message): server.js:91-100 (tests message.channel alone, signature
\* as it came), part_000:79-88 (tests message.subscription too, String(signature)).
outgoing(push, message) ==
    IF /\ message.channel = "/meta/subscribe"
       /\ rev = "part_000" => message.subscription = push.channel
    THEN [message EXCEPT
            !.ext = [@ EXCEPT
                       !.present = TRUE,
                       !.private_pub_signature =
                           IF rev = "part_000" THEN String(push.signature)
                           ELSE push.signature,
                       !.private_pub_timestamp = String(push.timestamp)]]
    ELSE message

\* A client built for `push` sends `message` through its extension.
Outgoing(push, message) ==
    /\ rev \in {"server.js", "part_000"}
    /\ wire' = [channel |-> push.channel, signature |-> push.signature,
                timestamp |-> push.timestamp, message |-> message,
                out |-> outgoing(push, message)]
    /\ UNCHANGED <<env, subs, active, clients, last, hook, events, sent>>

Next ==
    \/ \E push \in SubscribeBodies : Subscribe(push)
    \/ \E push \in SubscribeBodies : SubscribeToChannel(push)
    \/ \E c \in DOMAIN clients : BusConfirm(c)
    \/ \E c \in DOMAIN clients : BusReject(c)
    \/ \E c \in DOMAIN clients : TimerFires(c)
    \/ \E ch \in Channels \cup {Undefined}, ct, dt \in BOOLEAN :
           UnsubscribeFromChannel(ch, ct, dt)
    \/ \E ch \in Channels \cup {Undefined}, ct \in BOOLEAN : Unsubscribe(ch, ct)
    \/ Health
    \/ Close

Spec == Init /\ [][Next]_vars

\* The subscribe request of the spec's scenario 1.
Scenario1 == {[channel |-> "/task/1", signature |-> "abc", timestamp |-> "1700000000"]}

\* An event Podio signed with the shared secret.
SignedPushes ==
    {<<body, Hmac("s3cret", body)>> : body \in {b \in PushBodies : b.type = "item.update"}}

\* The Event Relay with both of its sources, the bus callbacks of subscribed
\* channels and the accepted webhook events, under every configuration of the
\* forward targets.
InitRelay ==
    /\ rev \in Revisions
    /\ PODIO_PUSH_SECRET = "s3cret"
    /\ Start

NextRelay ==
    \/ \E push \in Scenario1 : Subscribe(push)
    \/ \E push \in Scenario1 : SubscribeToChannel(push)
    \/ \E c \in DOMAIN clients : BusConfirm(c)
    \/ \E c \in DOMAIN clients : BusMessage(c)
    \/ \E e \in DOMAIN events, T \in Targets, outcome \in {"2xx", "error"} :
           PostComplete(e, T, outcome)
    \/ \E p \in SignedPushes : PodioPush(p[1], p[2])

SpecRelay == InitRelay /\ [][NextRelay]_vars

\* The webhook handler of the two revisions that have one, for every body and
\* signature header, with and without a configured secret.
InitHook ==
    /\ rev \in {"server.js", "push"}
    /\ PODIO_PUSH_SECRET \in {Undefined, "s3cret"}
    /\ Start

NextHook ==
    \E body \in PushBodies : \E signature \in Signatures(body) : PodioPush(body, signature)

SpecHook == InitHook /\ [][NextHook]_vars

\* The control API on one channel, with the scheduling Node gives: a timer set
\* by setTimeout does fire (the event loop runs it after its 15 s), while the
\* bus is free to confirm, to reject or to stay silent.
NextLive ==
    \/ \E push \in Scenario1 : Subscribe(push)
    \/ \E push \in Scenario1 : SubscribeToChannel(push)
    \/ \E c \in DOMAIN clients : BusConfirm(c)
    \/ \E c \in DOMAIN clients : BusReject(c)
    \/ \E c \in DOMAIN clients : TimerFires(c)
    \/ \E ct, dt \in BOOLEAN : UnsubscribeFromChannel("/task/1", ct, dt)
    \/ \E ct \in BOOLEAN : Unsubscribe("/task/1", ct)
    \/ Health
    \/ Close

SpecLive ==
    /\ Init
    /\ [][NextLive]_vars
    /\ \A c \in 1..MaxClients : WF_vars(c \in DOMAIN clients /\ TimerFires(c))

\* The control API on one channel together with the messages the bus pushes
\* to the clients built for it, both forward targets configured and a
\* transport on which cancel() and disconnect() do not raise.
NextBus ==
    \/ \E push \in Scenario1 : Subscribe(push)
    \/ \E push \in Scenario1 : SubscribeToChannel(push)
    \/ \E c \in DOMAIN clients : BusConfirm(c)
    \/ \E c \in DOMAIN clients : TimerFires(c)
    \/ UnsubscribeFromChannel("/task/1", FALSE, FALSE)
    \/ Unsubscribe("/task/1", FALSE)
    \/ \E c \in DOMAIN clients : BusMessage(c)
    \/ \E e \in DOMAIN events, T \in Targets, outcome \in {"2xx", "error"} :
           PostComplete(e, T, outcome)
    \/ Close

SpecBus == Init /\ [][NextBus]_vars

\* The outgoing extension of the two revisions that build Faye clients, over
\* the push blobs and the messages above.
InitWire ==
    /\ rev \in {"server.js", "part_000"}
    /\ PODIO_PUSH_SECRET = "s3cret"
    /\ Start
    /\ AVA_TOPIC_URL = "https://ava"
    /\ DEBUG_WEBHOOK_URL = "https://debug"

NextWire ==
    \E push \in ExtensionPushes : \E message \in Messages : Outgoing(push, message)

SpecWire == InitWire /\ [][NextWire]_vars

\* ------------------------------------------------------------- claims
Count(seq, x) == Cardinality({i \in DOMAIN seq : seq[i] = x})

\* A bus client that holds a pending or confirmed subscription.
Live(c) == clients[c].connected /\ clients[c].sub \in {"pending", "confirmed"}

\* The control request answered in this step.
Answered(op) == last = NoRequest /\ last'.op = op /\ last'.channel \in Channels

\* C1: two subscribe requests for one channel that are in flight together, both
\* confirmed by the bus in time, return one `subscribed` and one `exists`, and
\* the registry then holds the entry of that channel.
C1_ConcurrentSubscribe ==
    \A c1, c2 \in DOMAIN clients :
        (/\ c1 \in clients[c2].peers
         /\ clients[c1].promise = "resolved"
         /\ clients[c2].promise = "resolved")
        => /\ {Answer(c1).status, Answer(c2).status} = {"subscribed", "exists"}
           /\ HasEntry(Registry, clients[c1].channel)

\* C2: in every state each channel has at most one bus client that holds a
\* pending or confirmed subscription for it.
C2_OneLiveClientPerChannel ==
    \A ch \in Channels :
        Cardinality({c \in DOMAIN clients : clients[c].channel = ch /\ Live(c)}) <= 1

\* C3: a subscribe request for a channel that has a registry entry returns
\* status `exists`, builds no client, sends nothing to the bus and leaves the
\* registry as it was.
C3_DuplicateSubscribe ==
    [][(Answered("subscribe") /\ last'.code # 400 /\ HasEntry(Registry, last'.channel))
        => (/\ last'.code = 200
            /\ last'.status = "exists"
            /\ clients' = clients
            /\ subs' = subs /\ active' = active)]_vars

\* C4: when the confirmation timer ends the wait of a subscribe call, the caller
\* gets an error, and on return the registry has no entry for the channel and
\* nothing of the failed attempt is left: its client holds no subscription.
C4_TimeoutLeavesNothing ==
    [][\A c \in DOMAIN clients :
        (clients[c].promise = "pending" /\ clients'[c].promise = "rejected")
        => (/\ Answer(c)'.code = 500
            /\ ~HasEntry(Registry', clients[c].channel)
            /\ ~Live(c)')]_vars

\* C9: an unsubscribe request for a channel without a registry entry returns
\* `not_found` with status 200, calls no bus client and leaves the registry
\* unchanged.
C9_UnsubscribeAbsent ==
    [][(Answered("unsubscribe") /\ ~HasEntry(Registry, last'.channel))
        => (/\ last'.code = 200
            /\ last'.status = "not_found"
            /\ clients' = clients
            /\ subs' = subs /\ active' = active)]_vars

\* C9 witness: `not_found` was answered while another channel is subscribed.
C9_Witness ==
    /\ last.op = "unsubscribe"
    /\ last.status = "not_found"
    /\ \E ch \in Channels : HasEntry(Registry, ch)

\* C10: an unsubscribe request for a channel with a registry entry calls cancel
\* and disconnect on the entry's client, removes the entry and returns
\* `unsubscribed`, whether or not a call raised.
C10_TeardownBestEffort ==
    [][(Answered("unsubscribe") /\ HasEntry(Registry, last'.channel))
        => LET c == Registry[last'.channel]
           IN /\ clients'[c].cancelCalled
              /\ clients'[c].disconnectCalled
              /\ ~HasEntry(Registry', last'.channel)
              /\ last'.code = 200
              /\ last'.status = "unsubscribed"]_vars

\* The key the running revision verifies with.
VerifyKey == IF PODIO_PUSH_SECRET = Undefined THEN "" ELSE PODIO_PUSH_SECRET

C6_HandshakeEcho ==
    (hook.type = HandshakeType /\ Truthy(hook.challenge))
    => /\ hook.code = 200
       /\ hook.echo = hook.challenge
       /\ hook.verify = "none"
       /\ hook.event = 0

\* C6 witness: a handshake that carried a signature of another body was echoed.
C6_Witness ==
    /\ hook.type = HandshakeType
    /\ hook.challenge = "xyz"
    /\ hook.sig \notin {<<>>, Hmac(VerifyKey, hook)}
    /\ hook.echo = "xyz"

\* A delivery that failed, in the forwarder or out of it.
Failed(st) == st \in {"failed", "thrown"}

\* C7: when the delivery of an envelope to one target fails, the other
\* configured target is still sent the envelope, the failure does not leave
\* the forwarder (the callback goes on, the webhook answers 200), and no target
\* is sent the envelope twice.
C7_FailureIsolation ==
    \A e \in DOMAIN events :
        /\ events[e].ava # "thrown" /\ events[e].debug # "thrown"
        /\ (Failed(events[e].ava) /\ DEBUG_WEBHOOK_URL # Undefined)
               => Count(sent.debug, e) = 1
        /\ (Failed(events[e].debug) /\ AVA_TOPIC_URL # Undefined)
               => Count(sent.ava, e) = 1
        /\ \A T \in Targets : Count(sent[T], e) <= 1
        /\ hook.event = e => hook.code = 200

\* C7 witness: on a bus callback the post to AVA failed and the envelope went
\* out to the debug target; on the webhook the debug post failed and AVA's did not.
C7_Witness ==
    /\ \E e \in DOMAIN events :
           /\ events[e].path = "bus"
           /\ events[e].ava = "failed"
           /\ events[e].debug = "ok"
    /\ \E e \in DOMAIN events :
           /\ events[e].path = "webhook"
           /\ events[e].debug = "failed"
           /\ events[e].ava = "ok"

\* Two envelopes of one source: the callback of one subscription, or the webhook.
SameSource(e1, e2) ==
    /\ events[e1].path = events[e2].path
    /\ events[e1].client = events[e2].client

\* C8: each target is sent the envelopes of one source in the order in which
\* they reached the relay.
C8_ArrivalOrderPerTarget ==
    \A T \in Targets :
        \A i, j \in DOMAIN sent[T] :
            (i < j /\ SameSource(sent[T][i], sent[T][j])) => sent[T][i] < sent[T][j]

\* C11: GET /health reports exactly the channels that are keys of the registry:
\* a subscribed channel is in the reported set, and after its unsubscribe the
\* set is again what it was before the subscribe.
C11_HealthListsRegistry ==
    last.op = "health"
    => last.subscriptions = {ch \in Channels : HasEntry(Registry, ch)}

\* C12: the 200 response to an accepted webhook event is sent in the run that
\* starts the forward calls, while every started post is still unanswered, and
\* the end of a post (success or failure) changes nothing of the response.
C12_ResponseDoesNotWait ==
    [][/\ (hook' # hook /\ hook'.event # 0)
          => /\ hook'.code = 200
             /\ \A T \in Targets : events'[hook'.event][T] # "ok"
             /\ \A T \in Targets :
                    (IF T = "ava" THEN AVA_TOPIC_URL ELSE DEBUG_WEBHOOK_URL) # Undefined
                    => events'[hook'.event][T] = "inflight"
       /\ (Len(events') = Len(events) /\ events' # events) => hook' = hook]_vars

\* C12 witness: the accepted event was answered 200; one of its posts has
\* failed and the other has not been answered.
C12_Witness ==
    /\ hook.event # 0
    /\ hook.code = 200
    /\ events[hook.event].ava = "inflight"
    /\ events[hook.event].debug = "failed"
    /\ DEBUG_WEBHOOK_URL # Undefined

\* C13: a subscribe request without push.channel, push.signature or
\* push.timestamp, and an unsubscribe request without channel, is answered 400
\* and changes nothing: not the registry, not a bus client, not a target.
C13_ValidationNoSideEffect ==
    [][last' # last =>
       /\ \A push \in SubscribeBodies :
              (/\ Undefined \in {push.channel, push.signature, push.timestamp}
               /\ (Subscribe(push) \/ SubscribeToChannel(push)))
              => /\ last'.code = 400
                 /\ clients' = clients
                 /\ subs' = subs /\ active' = active
                 /\ sent' = sent /\ events' = events
       /\ (\E ct, dt \in BOOLEAN :
              Unsubscribe(Undefined, ct) \/ UnsubscribeFromChannel(Undefined, ct, dt))
              => /\ last'.code = 400
                 /\ clients' = clients
                 /\ subs' = subs /\ active' = active
                 /\ sent' = sent /\ events' = events]_vars

\* C13 witness: a subscribe request that named a free channel but carried no
\* signature was answered 400 while another channel is subscribed.
C13_Witness ==
    /\ last.op = "subscribe"
    /\ last.code = 400
    /\ last.channel \in Channels
    /\ ~HasEntry(Registry, last.channel)
    /\ \E ch \in Channels : HasEntry(Registry, ch)

\* C14: the verifier never raises, and with no secret configured no webhook
\* request is accepted as authentic: the handler answers 401 and relays nothing.
C14_VerifierTotal ==
    /\ hook.verify # "threw"
    /\ (/\ PODIO_PUSH_SECRET = Undefined
        /\ hook # NoHook
        /\ ~isHandshake(hook))
       => /\ hook.code = 401
          /\ hook.verify # "true"
          /\ hook.event = 0

\* C15: while a subscribe call waits for the bus confirmation of a channel, the
\* registry holds an entry for that channel.
C15_PendingEntryWhileWaiting ==
    \A c \in Pending : HasEntry(Registry, clients[c].channel)

\* C16: the dispatches of one envelope start independently: once the envelope
\* has reached the relay it has been sent to every configured target, whether
\* or not the post to the other target has been answered.
C16_IndependentDispatch ==
    \A e \in DOMAIN events :
        /\ AVA_TOPIC_URL # Undefined => Count(sent.ava, e) = 1
        /\ DEBUG_WEBHOOK_URL # Undefined => Count(sent.debug, e) = 1

\* C17: the outgoing extension of a client bound to channel c adds the
\* signature and the timestamp, as a string, to a message if and only if the
\* message is the /meta/subscribe message whose subscription is c; every other
\* message is passed on as it came.
C17_ExtensionOnlyOnOwnSubscribe ==
    wire # NoWire
    => IF /\ wire.message.channel = "/meta/subscribe"
          /\ wire.message.subscription = wire.channel
       THEN /\ wire.out.ext.present
            /\ wire.out.ext.private_pub_signature.text = wire.signature.text
            /\ wire.out.ext.private_pub_timestamp = Str(wire.timestamp.text)
            /\ wire.out.ext.other = wire.message.ext.other
            /\ wire.out.channel = wire.message.channel
            /\ wire.out.subscription = wire.message.subscription
       ELSE wire.out = wire.message

\* C18: every subscribe call that waits for the bus confirmation stops waiting
\* and answers its caller, whether the bus confirms, rejects or stays silent;
\* an unsubscribe request and a status query are answered in their own run.
C18_EveryRequestReturns ==
    /\ \A c \in 1..MaxClients :
           (c \in DOMAIN clients /\ clients[c].promise = "pending")
           ~> (c \in DOMAIN clients /\ Answer(c).code \in {200, 500})
    /\ [][(last = NoRequest /\ last' # last) => last'.code \in {200, 400, 500}]_vars

\* C18 witness: the bus refused a subscription and the timer ended the wait of
\* its subscribe call.
C18_Witness ==
    \E c \in DOMAIN clients :
        /\ clients[c].sub = "failed"
        /\ clients[c].promise = "rejected"

\* A client whose subscription had a registry entry that is no longer there.
Removed(c) ==
    /\ rev = "server.js" \/ clients[c].promise = "resolved"
    /\ Registry[clients[c].channel] # c

\* C19: once the entry of a subscription has left the registry, no step of the
\* service calls cancel, disconnect or anything else on its client or handle.
C19_NoUseAfterRemoval ==
    [][\A c \in DOMAIN clients :
        Removed(c)
        => /\ clients'[c].cancelCalled = clients[c].cancelCalled
           /\ clients'[c].disconnectCalled = clients[c].disconnectCalled
           /\ clients'[c].sub = clients[c].sub
           /\ clients'[c].connected = clients[c].connected]_vars

\* C19 witness: after an unsubscribe whose cancel and disconnect both raised,
\* the channel was subscribed again and unsubscribed again.
C19_Witness ==
    \E c, d \in DOMAIN clients :
        /\ c < d
        /\ clients[c].channel = clients[d].channel
        /\ Removed(c) /\ Removed(d)
        /\ clients[c].cancelCalled /\ clients[c].sub = "confirmed"
        /\ clients[d].cancelCalled /\ clients[d].sub = "cancelled"

\* C20: a subscription the bus has rejected is destroyed: the registry has no
\* entry for it and its client is disconnected, so a later subscribe for the
\* channel is not answered `exists` because of it.
C20_RejectedIsDestroyed ==
    \A c \in DOMAIN clients :
        clients[c].sub = "failed"
        => /\ Registry[clients[c].channel] # c
           /\ ~clients[c].connected

\* The bus confirmation of client c's subscription arrives in this step.
Confirmed(c) == clients[c].sub = "pending" /\ clients'[c].sub = "confirmed"

\* The 15 s timer of client c's subscribe call fires in this step.
TimedOut(c) == clients[c].timer /\ ~clients'[c].timer

\* C21: the wait of a subscribe call has one outcome, set by whichever of the
\* confirmation and the timer comes first.  Timer first: the call fails, and a
\* later confirmation inserts no entry and changes no result.  Confirmation
\* first: the call returns `subscribed` with its entry, and the later timer
\* neither removes the entry nor reports a failure.
C21_SingleOutcome ==
    [][\A c \in DOMAIN clients :
        /\ clients[c].promise \in {"resolved", "rejected"}
               => clients'[c].promise = clients[c].promise
        /\ (clients[c].promise = "pending" /\ TimedOut(c))
               => Answer(c)'.code = 500
        /\ (clients[c].promise = "pending" /\ Confirmed(c))
               => /\ Answer(c)'.status = "subscribed"
                  /\ active'[clients[c].channel] = c
        /\ (clients[c].promise = "rejected" /\ Confirmed(c))
               => /\ active' = active
                  /\ Answer(c)' = Answer(c)
        /\ (clients[c].promise = "resolved" /\ TimedOut(c))
               => /\ active' = active
                  /\ Answer(c)' = Answer(c)]_vars

\* C21 witness: one call timed out and was confirmed afterwards, another was
\* confirmed and its timer fired afterwards.
C21_Witness ==
    \E c, d \in DOMAIN clients :
        /\ clients[c].promise = "rejected" /\ clients[c].sub = "confirmed"
        /\ clients[d].promise = "resolved" /\ ~clients[d].timer

\* C22: a message the bus pushes to a client is relayed only while the
\* client's channel has its registry entry, and no client is connected and
\* subscribed to a channel that is absent from the registry (as it is after a
\* timed-out subscribe and after an unsubscribe that returned `unsubscribed`).
C22_RelayOnlyWhileRegistered ==
    [][/\ Len(events') > Len(events)
          => LET e == events'[Len(events')]
             IN e.path = "bus" => Registry[clients[e.client].channel] = e.client
       /\ \A c \in DOMAIN clients' :
              (clients'[c].connected /\ clients'[c].sub = "confirmed")
              => HasEntry(Registry', clients'[c].channel)]_vars

\* C23: after an unsubscribe request for a channel has returned `unsubscribed`
\* or `not_found`, and as long as no request has started since, the channel is
\* absent from the registry: a subscribe call that was waiting for its
\* confirmation when the unsubscribe ran does not add the channel afterwards.
C23_AbsentAfterUnsubscribe ==
    (/\ last.op = "unsubscribe"
     /\ last.status \in {"unsubscribed", "not_found"})
    => ~HasEntry(Registry, last.channel)
=============================================================================
